---- MODULE Spec2Model ----
(***************************************************************************)
(* Model of analysis.py: the record decryption, parsing, filtering,        *)
(* daily-metrics, productivity-assessment and all-dates-summary pipeline   *)
(* of ActivityAnalyzer.                                                    *)
(*                                                                         *)
(* Python strings are sequences of one-character strings, so that prefix   *)
(* tests, slicing, lower-casing, float parsing and sorting are computed.   *)
(* Python floats are exact rationals <<numerator, denominator>> in lowest  *)
(* terms, arithmetic without rounding, in every specification but          *)
(* SpecFloat, where they are IEEE 754 binary64 values and every operation  *)
(* rounds as CPython's does.                                               *)
(***************************************************************************)
EXTENDS Integers, Sequences, FiniteSets, TLC

VARIABLES
    record,        \* SpecParse: the raw record handed to _parse_activity_record
    parsed,        \* SpecParse: what _parse_activity_record returned
    records,       \* SpecMetrics / SpecFloat: the List[ActivityRecord] handed to the calculator
    metrics,       \* SpecMetrics / SpecAssess / SpecFloat: a DailyMetrics
    productivity,  \* the same: what _analyze_productivity_metrics returned
    storage,       \* Spec: the content of self.data_file
    call,          \* Spec: the last public method called, with its arguments
    outcome,       \* Spec: what that call returned / printed, with its locals
    pc,            \* SpecMain: where main() stands
    reads          \* SpecMain: the file contents _load_activity_data has read, in order

vars == <<record, parsed, records, metrics, productivity, storage, call, outcome, pc, reads>>

parseVars == <<record, parsed>>
metricsVars == <<records, metrics, productivity>>
apiVars == <<storage, call, outcome>>
mainVars == <<pc, reads>>

----------------------------------------------------------------------------
(* Bounds of the model *)

\* longest raw record list kept in the data file
MaxRecords == 2
\* longest interval list handed to the calculator
MaxIntervals == 3
\* longest date list handed to analyze_all_dates_summary / create_histogram_charts
MaxDates == 2

----------------------------------------------------------------------------
(* Python values *)

\* a str
Str(s) == [t |-> "str", v |-> s]
\* None (JSON null)
Null == [t |-> "null"]
\* a JSON number
Num(n) == [t |-> "int", v |-> n]
\* the key is absent from the dict
Missing == [t |-> "missing"]
\* a str that is the base64 of a Fernet token: plaintext p encrypted under key k
Token(k, p) == [t |-> "token", key |-> k, plain |-> p]

\* config.DECRYPTION_KEY and config.EMPLOYEE_ID
DECRYPTION_KEY == "key-config"
EMPLOYEE_ID == <<"e", "1">>

\* the exceptions of the model, and the results that are not exceptions
Exc(e) == [kind |-> "exc", exc |-> e]
None == [kind |-> "None"]

\* Body applied to the value of v, which is computed once (a local variable)
Bind(v, Body(_)) == CHOOSE r \in { Body(x) : x \in {v} } : TRUE

\* dict.get(key, default) and dict[key]
Get(rec, key, default) == IF rec[key] = Missing THEN default ELSE rec[key]
Has(rec, key) == rec[key] # Missing

----------------------------------------------------------------------------
(* str operations *)

Digits == {"0", "1", "2", "3", "4", "5", "6", "7", "8", "9"}

DigitVal(c) ==
    CASE c = "0" -> 0 [] c = "1" -> 1 [] c = "2" -> 2 [] c = "3" -> 3
      [] c = "4" -> 4 [] c = "5" -> 5 [] c = "6" -> 6 [] c = "7" -> 7
      [] c = "8" -> 8 [] c = "9" -> 9

\* the code point order of the characters the model's strings use
CharCode(c) ==
    CASE c = " " -> 32 [] c = "+" -> 43 [] c = "-" -> 45 [] c = ":" -> 58
      [] c \in Digits -> 48 + DigitVal(c)
      [] c = "E" -> 69 [] c = "R" -> 82 [] c = "T" -> 84 [] c = "U" -> 85
      [] c = "a" -> 97 [] c = "b" -> 98 [] c = "c" -> 99 [] c = "e" -> 101
      [] c = "r" -> 114 [] c = "t" -> 116 [] c = "u" -> 117 [] c = "x" -> 120
      [] c = "y" -> 121 [] c = "s" -> 115 [] c = "f" -> 102 [] c = "l" -> 108

\* str.lower(), character by character
LowerChar(c) ==
    CASE c = "T" -> "t" [] c = "R" -> "r" [] c = "U" -> "u" [] c = "E" -> "e"
      [] OTHER -> c

Lower(s) == [i \in 1..Len(s) |-> LowerChar(s[i])]

\* s.startswith(p)
StartsWith(s, p) == Len(p) <= Len(s) /\ SubSeq(s, 1, Len(p)) = p

\* s[:n]
Prefix(s, n) == SubSeq(s, 1, IF Len(s) < n THEN Len(s) ELSE n)

\* s < t for str: the first differing code point decides, a proper prefix is smaller
RECURSIVE StrLess(_, _)
StrLess(s, t) ==
    IF t = <<>> THEN FALSE
    ELSE IF s = <<>> THEN TRUE
    ELSE IF CharCode(Head(s)) # CharCode(Head(t))
         THEN CharCode(Head(s)) < CharCode(Head(t))
         ELSE StrLess(Tail(s), Tail(t))

\* s.strip() for the blank
RECURSIVE LStrip(_)
LStrip(s) == IF s # <<>> /\ Head(s) = " " THEN LStrip(Tail(s)) ELSE s

RECURSIVE RStrip(_)
RStrip(s) ==
    IF s # <<>> /\ s[Len(s)] = " " THEN RStrip(SubSeq(s, 1, Len(s) - 1)) ELSE s

Strip(s) == RStrip(LStrip(s))

\* the value of a digit string, most significant digit first
RECURSIVE DigitsValue(_, _)
DigitsValue(s, acc) ==
    IF s = <<>> THEN acc ELSE DigitsValue(Tail(s), 10 * acc + DigitVal(Head(s)))

\* float(s) on integer literals: blanks stripped, an optional sign, then one or
\* more digits; anything else is a ValueError.  (The model's plaintexts hold no
\* decimal point, exponent, underscore, "inf" or "nan".)
ParseFloat(s) ==
    Bind(Strip(s), LAMBDA body :
        LET signed == body # <<>> /\ Head(body) \in {"+", "-"}
            digits == IF signed THEN Tail(body) ELSE body
        IN  IF digits # <<>> /\ \A i \in 1..Len(digits) : digits[i] \in Digits
            THEN [ok |-> TRUE,
                  value |-> IF signed /\ Head(body) = "-"
                            THEN 0 - DigitsValue(digits, 0)
                            ELSE DigitsValue(digits, 0)]
            ELSE [ok |-> FALSE])

----------------------------------------------------------------------------
(* Exact rationals standing for Python floats *)

RECURSIVE GCD(_, _)
GCD(a, b) ==
    Bind(<<a, b>>, LAMBDA p : IF p[2] = 0 THEN p[1] ELSE GCD(p[2], p[1] % p[2]))

Abs(n) == IF n < 0 THEN 0 - n ELSE n

\* n / d in lowest terms with a positive denominator (d # 0)
Rat(n, d) ==
    Bind(<<n, d, GCD(Abs(n), Abs(d))>>,
         LAMBDA x : IF x[2] < 0
                    THEN <<(0 - x[1]) \div x[3], (0 - x[2]) \div x[3]>>
                    ELSE <<x[1] \div x[3], x[2] \div x[3]>>)

RZero == <<0, 1>>
RInt(n) == <<n, 1>>
RAdd(a, b) ==
    Bind(<<a, b>>, LAMBDA p : Rat(p[1][1] * p[2][2] + p[2][1] * p[1][2], p[1][2] * p[2][2]))
RSub(a, b) ==
    Bind(<<a, b>>, LAMBDA p : Rat(p[1][1] * p[2][2] - p[2][1] * p[1][2], p[1][2] * p[2][2]))
RMul(a, b) ==
    Bind(<<a, b>>, LAMBDA p : Rat(p[1][1] * p[2][1], p[1][2] * p[2][2]))
RDiv(a, b) ==
    Bind(<<a, b>>, LAMBDA p : Rat(p[1][1] * p[2][2], p[1][2] * p[2][1]))
RLess(a, b) ==
    Bind(<<a, b>>, LAMBDA p : p[1][1] * p[2][2] < p[2][1] * p[1][2])
RLeq(a, b) ==
    Bind(<<a, b>>, LAMBDA p : p[1][1] * p[2][2] <= p[2][1] * p[1][2])

----------------------------------------------------------------------------
(* ActivityAnalyzer._decrypt_field and _parse_activity_record *)

\* _decrypt_field: base64-decode and Fernet-decrypt under the configured key;
\* every exception (not a str, not base64, invalid token, wrong key) gives ""
DecryptField(encrypted_data) ==
    IF encrypted_data.t = "token" /\ encrypted_data.key = DECRYPTION_KEY
    THEN encrypted_data.plain
    ELSE <<>>

ActivityRecord(start_time, duration, is_afk) ==
    [kind |-> "ActivityRecord", start_time |-> start_time,
     duration |-> duration, is_afk |-> is_afk]

\* the body of the try block of _parse_activity_record
TryParse(rec) ==
    IF ~Has(rec, "duration_seconds") THEN Exc("KeyError")
    ELSE IF ~Has(rec, "is_afk") THEN Exc("KeyError")
    ELSE Bind(<<DecryptField(rec["duration_seconds"]), DecryptField(rec["is_afk"])>>,
              LAMBDA plain :
         LET duration_str == plain[1]
             afk_str == plain[2]
         IN  IF duration_str = <<>> \/ afk_str = <<>> THEN None
             ELSE Bind(ParseFloat(duration_str), LAMBDA duration :
                  IF ~duration.ok THEN Exc("ValueError")
                  ELSE IF ~Has(rec, "start_time") THEN Exc("KeyError")
                  ELSE ActivityRecord(rec["start_time"], duration.value,
                                      Lower(afk_str) = <<"t", "r", "u", "e">>)))

\* variant: the except clause forgets ValueError
ParseCaughtNoValueError == {"KeyError", "TypeError"}

\* the exceptions the except clause of _parse_activity_record catches
ParseCaught == {"KeyError", "ValueError", "TypeError"}

ParseActivityRecord(rec) ==
    Bind(TryParse(rec), LAMBDA r :
        IF r.kind = "exc" /\ r.exc \in ParseCaught THEN None ELSE r)

----------------------------------------------------------------------------
(* ActivityAnalyzer._filter_records_by_date_and_employee *)

\* record.get("employee_id") == EMPLOYEE_ID
MatchesEmployee(rec) == Get(rec, "employee_id", Null) = Str(EMPLOYEE_ID)

\* the loop over data from index i on, records holding what was appended so far.
\* record.get("start_time", "").startswith(...) is evaluated only when the
\* employee_id matched, and raises AttributeError when the value is not a str;
\* the method has no try block, so the exception leaves it.
RECURSIVE FilterFrom(_, _, _, _)
FilterFrom(data, target_date, i, acc) ==
    IF i > Len(data) THEN [kind |-> "ok", records |-> acc]
    ELSE IF ~MatchesEmployee(data[i])
         THEN FilterFrom(data, target_date, i + 1, acc)
    ELSE LET start_time == Get(data[i], "start_time", Str(<<>>))
         IN  IF start_time.t # "str" THEN Exc("AttributeError")
             ELSE IF ~StartsWith(start_time.v, target_date)
                  THEN FilterFrom(data, target_date, i + 1, acc)
             ELSE Bind(ParseActivityRecord(data[i]), LAMBDA parsed_record :
                      IF parsed_record.kind = "exc" THEN parsed_record
                      ELSE FilterFrom(data, target_date, i + 1,
                                      IF parsed_record = None THEN acc
                                      ELSE Append(acc, parsed_record)))

FilterRecordsByDateAndEmployee(data, target_date) ==
    FilterFrom(data, target_date, 1, <<>>)

----------------------------------------------------------------------------
(* ActivityAnalyzer._calculate_daily_metrics *)

SECONDS_PER_HOUR == 3600
PERCENT == 100

\* sum(record.duration for record in records if keep(record))
RECURSIVE SumDuration(_, _)
SumDuration(recs, afkOnly) ==
    IF recs = <<>> THEN 0
    ELSE (IF afkOnly /\ ~Head(recs).is_afk THEN 0 ELSE Head(recs).duration)
         + SumDuration(Tail(recs), afkOnly)

DailyMetrics(total_hours, active_hours, inactive_hours, afk_hours, activity_rate, inactivity_rate, afk_rate, total_records) ==
    [total_hours |-> total_hours, active_hours |-> active_hours,
     inactive_hours |-> inactive_hours, afk_hours |-> afk_hours,
     activity_rate |-> activity_rate, inactivity_rate |-> inactivity_rate,
     afk_rate |-> afk_rate, total_records |-> total_records]

\* variant: inactive time taken as what is left after the afk time
InactiveHoursLessAfk(total_hours, active_hours, afk_hours) ==
    RSub(total_hours, afk_hours)

\* inactive_hours = total_hours - active_hours
InactiveHours(total_hours, active_hours, afk_hours) ==
    RSub(total_hours, active_hours)

\* variant: the rate left as a fraction of 1
RateOfFraction(part, whole) ==
    Bind(<<part, whole>>, LAMBDA p :
        IF RLess(RZero, p[2]) THEN RDiv(p[1], p[2]) ELSE RZero)

\* a rate: part / whole * 100 if whole > 0 else 0
RateOf(part, whole) ==
    Bind(<<part, whole>>, LAMBDA p :
        IF RLess(RZero, p[2]) THEN RMul(RDiv(p[1], p[2]), RInt(PERCENT)) ELSE RZero)

CalculateDailyMetrics(recs) ==
    IF recs = <<>>
    THEN DailyMetrics(RZero, RZero, RZero, RZero, RZero, RZero, RZero, 0)
    ELSE Bind(<<SumDuration(recs, FALSE), SumDuration(recs, TRUE)>>, LAMBDA seconds :
         LET total_seconds == seconds[1]
             afk_seconds == seconds[2]
             active_seconds == total_seconds - afk_seconds
         IN  Bind(<<Rat(total_seconds, SECONDS_PER_HOUR),
                    Rat(afk_seconds, SECONDS_PER_HOUR),
                    Rat(active_seconds, SECONDS_PER_HOUR)>>, LAMBDA hours :
             LET total_hours == hours[1]
                 afk_hours == hours[2]
                 active_hours == hours[3]
             IN  Bind(InactiveHours(total_hours, active_hours, afk_hours),
                      LAMBDA inactive_hours :
                 DailyMetrics(total_hours, active_hours, inactive_hours, afk_hours,
                              RateOf(RInt(active_seconds), RInt(total_seconds)),
                              RateOf(inactive_hours, total_hours),
                              RateOf(afk_hours, total_hours),
                              Len(recs)))))

----------------------------------------------------------------------------
(* ActivityAnalyzer._analyze_productivity_metrics *)

FULL_DAY_HOURS == 8
SUBSTANTIAL_HOURS == 6
EXCELLENT_ACTIVITY == 80
GOOD_ACTIVITY == 60
LOW_INACTIVITY == 20
MODERATE_INACTIVITY == 40

\* an assessment line: which ladder it comes from, its ProductivityLevel, and
\* the wording that follows the level's marker
Assessment(ladder, level, text) == [ladder |-> ladder, level |-> level, text |-> text]

TotalHoursAssessment(m) ==
    IF RLeq(RInt(FULL_DAY_HOURS), m.total_hours)
    THEN Assessment("total_hours", "EXCELLENT", "Full work day tracked")
    ELSE IF RLeq(RInt(SUBSTANTIAL_HOURS), m.total_hours)
    THEN Assessment("total_hours", "GOOD", "Substantial work time")
    ELSE Assessment("total_hours", "POOR", "Limited work time")

\* variant: the activity ladder with strict comparisons
ActivityRateAssessmentStrict(m) ==
    IF RLess(RInt(EXCELLENT_ACTIVITY), m.activity_rate)
    THEN Assessment("activity_rate", "EXCELLENT", "Excellent activity rate")
    ELSE IF RLess(RInt(GOOD_ACTIVITY), m.activity_rate)
    THEN Assessment("activity_rate", "GOOD", "Good activity rate")
    ELSE Assessment("activity_rate", "POOR", "Low activity rate")

ActivityRateAssessment(m) ==
    IF RLeq(RInt(EXCELLENT_ACTIVITY), m.activity_rate)
    THEN Assessment("activity_rate", "EXCELLENT", "Excellent activity rate")
    ELSE IF RLeq(RInt(GOOD_ACTIVITY), m.activity_rate)
    THEN Assessment("activity_rate", "GOOD", "Good activity rate")
    ELSE Assessment("activity_rate", "POOR", "Low activity rate")

InactivityAssessment(m) ==
    IF RLeq(m.inactivity_rate, RInt(LOW_INACTIVITY))
    THEN Assessment("inactivity_rate", "EXCELLENT", "Low inactivity")
    ELSE IF RLeq(m.inactivity_rate, RInt(MODERATE_INACTIVITY))
    THEN Assessment("inactivity_rate", "GOOD", "Moderate inactivity")
    ELSE Assessment("inactivity_rate", "POOR", "High inactivity")

AnalyzeProductivityMetrics(m) ==
    [inactive_hours |-> m.inactive_hours,
     inactivity_rate |-> m.inactivity_rate,
     afk_rate |-> m.afk_rate,
     activity_rate |-> m.activity_rate,
     assessments |-> <<TotalHoursAssessment(m), ActivityRateAssessment(m),
                       InactivityAssessment(m)>>]

----------------------------------------------------------------------------
(* ActivityAnalyzer._load_activity_data and get_available_dates *)

\* the data file is missing, holds invalid JSON, or holds a list of records;
\* both exceptions are logged and raised again
LoadActivityData(file) ==
    IF file.kind = "missing" THEN Exc("FileNotFoundError")
    ELSE IF file.kind = "invalid_json" THEN Exc("JSONDecodeError")
    ELSE [kind |-> "ok", data |-> file.data]

DATE_LENGTH == 10

\* the members of a set of str as an ascending list: sorted(list(dates))
RECURSIVE SortedList(_)
SortedList(S) ==
    IF S = {} THEN <<>>
    ELSE Bind(CHOOSE x \in S : \A y \in S \ {x} : StrLess(x, y),
              LAMBDA least : <<least>> \o SortedList(S \ {least}))

\* the loop of get_available_dates; len(start_time) raises TypeError when the
\* value is None or a number
RECURSIVE DatesFrom(_, _, _)
DatesFrom(data, i, dates) ==
    IF i > Len(data) THEN [kind |-> "ok", dates |-> dates]
    ELSE IF ~MatchesEmployee(data[i]) THEN DatesFrom(data, i + 1, dates)
    ELSE LET start_time == Get(data[i], "start_time", Str(<<>>))
         IN  IF start_time.t # "str" THEN Exc("TypeError")
             ELSE IF Len(start_time.v) >= DATE_LENGTH
                  THEN DatesFrom(data, i + 1,
                                 dates \cup {Prefix(start_time.v, DATE_LENGTH)})
                  ELSE DatesFrom(data, i + 1, dates)

\* get_available_dates: any exception of the load or of the loop is logged
\* and the empty list returned
GetAvailableDates(file) ==
    LET loaded == LoadActivityData(file)
    IN  IF loaded.kind = "exc" THEN <<>>
        ELSE Bind(DatesFrom(loaded.data, 1, {}), LAMBDA found :
                 IF found.kind = "exc" THEN <<>> ELSE SortedList(found.dates))

----------------------------------------------------------------------------
(* ActivityAnalyzer.analyze_specific_date *)

\* the outcome keeps the locals records and metrics next to what is printed:
\* the error line, the "No data found" line, or the report.  (The printed
\* time range of _format_time_range is left out: it reads the records only.)
AnalyzeSpecificDate(file, target_date) ==
    LET loaded == LoadActivityData(file)
    IN  IF loaded.kind = "exc"
        THEN [status |-> "error", exc |-> loaded.exc, filtered |-> None]
        ELSE Bind(FilterRecordsByDateAndEmployee(loaded.data, target_date),
                  LAMBDA filtered :
                 IF filtered.kind = "exc"
                 THEN [status |-> "error", exc |-> filtered.exc, filtered |-> filtered]
                 ELSE IF filtered.records = <<>>
                 THEN [status |-> "no_data", filtered |-> filtered]
                 ELSE Bind(CalculateDailyMetrics(filtered.records), LAMBDA m :
                          [status |-> "report", filtered |-> filtered,
                           metrics |-> m,
                           productivity |-> AnalyzeProductivityMetrics(m)]))

----------------------------------------------------------------------------
(* ActivityAnalyzer.analyze_all_dates_summary and create_histogram_charts *)

\* the loop over available_dates: days holds the metrics of each date that
\* has records, in date-list order; an exception of the filter ends the loop
RECURSIVE DayMetricsFrom(_, _, _, _)
DayMetricsFrom(data, available_dates, i, days) ==
    IF i > Len(available_dates) THEN [kind |-> "ok", days |-> days]
    ELSE Bind(FilterRecordsByDateAndEmployee(data, available_dates[i]),
              LAMBDA filtered :
             IF filtered.kind = "exc" THEN filtered
             ELSE DayMetricsFrom(data, available_dates, i + 1,
                    IF filtered.records = <<>> THEN days
                    ELSE Append(days, [date |-> available_dates[i],
                                       metrics |-> CalculateDailyMetrics(filtered.records)])))

\* total += metrics.<field> over the days that have records
RECURSIVE SumField(_, _)
SumField(days, field) ==
    IF days = <<>> THEN RZero
    ELSE RAdd(Head(days).metrics[field], SumField(Tail(days), field))

\* variant: the average taken with floor division
AveragePerDayFloor(total, total_days) ==
    IF total_days > 0
    THEN RInt((total[1] \div total[2]) \div total_days)
    ELSE RZero

\* total / total_days if total_days > 0 else 0
AveragePerDay(total, total_days) ==
    IF total_days > 0 THEN RDiv(total, RInt(total_days)) ELSE RZero

\* variant: the overall rate taken as the mean of the days' rates
OverallActivityRateMean(days) ==
    IF days # <<>>
    THEN RDiv(SumField(days, "activity_rate"), RInt(Len(days)))
    ELSE RZero

\* total_active_hours / total_tracked_hours * 100 if total_tracked_hours > 0 else 0
OverallActivityRate(days) ==
    Bind(<<SumField(days, "active_hours"), SumField(days, "total_hours")>>, LAMBDA t :
        LET total_active_hours == t[1]
            total_tracked_hours == t[2]
        IN  IF RLess(RZero, total_tracked_hours)
            THEN RMul(RDiv(total_active_hours, total_tracked_hours), RInt(PERCENT))
            ELSE RZero)

\* the accumulators of the loop and what is computed from them
SummaryOf(days, total_days) ==
    Bind([active |-> SumField(days, "active_hours"),
          tracked |-> SumField(days, "total_hours"),
          afk |-> SumField(days, "afk_hours"),
          inactive |-> SumField(days, "inactive_hours")], LAMBDA total :
        [status |-> "summary",
         days |-> days,
         total_days |-> total_days,
         total_active_hours |-> total.active,
         total_tracked_hours |-> total.tracked,
         total_afk_hours |-> total.afk,
         total_inactive_hours |-> total.inactive,
         avg_active_hours |-> AveragePerDay(total.active, total_days),
         avg_total_hours |-> AveragePerDay(total.tracked, total_days),
         avg_inactive_hours |-> AveragePerDay(total.inactive, total_days),
         overall_activity_rate |-> OverallActivityRate(days)])

AnalyzeAllDatesSummary(file, available_dates) ==
    IF available_dates = <<>> THEN [status |-> "no_data"]
    ELSE LET loaded == LoadActivityData(file)
         IN  IF loaded.kind = "exc" THEN [status |-> "error", exc |-> loaded.exc]
             ELSE Bind(DayMetricsFrom(loaded.data, available_dates, 1, <<>>),
                       LAMBDA loop :
                      IF loop.kind = "exc" THEN [status |-> "error", exc |-> loop.exc]
                      ELSE SummaryOf(loop.days, Len(available_dates)))

\* create_histogram_charts up to the table handed to the plotting library
CreateHistogramCharts(file, available_dates) ==
    IF available_dates = <<>> THEN [status |-> "no_data"]
    ELSE LET loaded == LoadActivityData(file)
         IN  IF loaded.kind = "exc" THEN [status |-> "error", exc |-> loaded.exc]
             ELSE Bind(DayMetricsFrom(loaded.data, available_dates, 1, <<>>),
                       LAMBDA loop :
                      IF loop.kind = "exc" THEN [status |-> "error", exc |-> loop.exc]
                      ELSE IF loop.days = <<>> THEN [status |-> "no_metrics"]
                      ELSE [status |-> "charts", metrics_data |-> loop.days])

----------------------------------------------------------------------------
(* Raw record values the specifications draw from *)

RawRecord(employee_id, start_time, duration_seconds, is_afk) ==
    [employee_id |-> employee_id, start_time |-> start_time,
     duration_seconds |-> duration_seconds, is_afk |-> is_afk]

\* "2025-01-0<d>T<h>": a timestamp whose first 10 characters are a date
Date(d) == <<"2", "0", "2", "5", "-", "0", "1", "-", "0", d>>
Stamp(d, h) == Date(d) \o <<"T">> \o h

OTHER_KEY == "key-other"
OTHER_EMPLOYEE == <<"e", "2">>

\* plaintexts of duration_seconds, with the number Python's float() gives
\* ("no" where float() raises ValueError)
DurationTable ==
    { <<(<<"3", "6", "0", "0">>), "yes", 3600>>,
      <<(<<"7", "2", "0", "0">>), "yes", 7200>>,
      <<(<<"0">>), "yes", 0>>,
      <<(<<"-", "3", "6", "0", "0">>), "yes", 0 - 3600>>,
      <<(<<" ", "+", "1", "8", "0", "0", " ">>), "yes", 1800>>,
      <<(<<"a", "b", "c">>), "no", 0>>,
      <<(<<"1", "2", "x">>), "no", 0>>,
      <<(<<"-">>), "no", 0>> }

DurationPlaintexts == { row[1] : row \in DurationTable }

\* plaintexts of is_afk
AfkPlaintexts ==
    { <<"t", "r", "u", "e">>, <<"T", "r", "u", "e">>, <<"T", "R", "U", "E">>,
      <<"f", "a", "l", "s", "e">>, <<"y", "e", "s">>, <<" ", "t", "r", "u", "e">> }

\* field values that do not decrypt: a token under another key, a str that is
\* no token, null, a number, and a token of the empty plaintext
Undecryptable ==
    { Token(OTHER_KEY, <<"3", "6", "0", "0">>), Token(OTHER_KEY, <<"t", "r", "u", "e">>),
      Str(<<"x">>), Null, Num(5), Token(DECRYPTION_KEY, <<>>) }

DurationFields ==
    { Token(DECRYPTION_KEY, p) : p \in DurationPlaintexts } \cup Undecryptable \cup {Missing}

AfkFields ==
    { Token(DECRYPTION_KEY, p) : p \in AfkPlaintexts } \cup Undecryptable \cup {Missing}

StartTimeFields ==
    { Str(Stamp("1", <<"0", "9">>)), Str(<<>>), Null, Num(5), Missing }

----------------------------------------------------------------------------
(* SpecParse: _parse_activity_record applied to one raw record *)

Pending == [kind |-> "pending"]
Unused == [kind |-> "unused"]

ParseInputs ==
    { RawRecord(Str(EMPLOYEE_ID), s, d, a) :
        s \in StartTimeFields, d \in DurationFields, a \in AfkFields }

InitParse ==
    /\ record \in ParseInputs
    /\ parsed = Pending
    /\ records = <<>> /\ metrics = Unused /\ productivity = Unused
    /\ storage = Unused /\ call = Unused /\ outcome = Unused
    /\ pc = "unused" /\ reads = <<>>

ParseRecord ==
    /\ parsed = Pending
    /\ parsed' = ParseActivityRecord(record)
    /\ UNCHANGED <<record, metricsVars, apiVars, mainVars>>

NextParse == ParseRecord

SpecParse == InitParse /\ [][NextParse]_vars

\* the drop conditions of the parser, stated on the raw record
RequiredKeyMissing(rec) ==
    \E k \in {"duration_seconds", "is_afk", "start_time"} : rec[k] = Missing

DecryptsEmpty(rec) ==
    \E k \in {"duration_seconds", "is_afk"} :
        rec[k] # Missing /\ DecryptField(rec[k]) = <<>>

DurationRow(rec) ==
    CHOOSE row \in DurationTable : row[1] = DecryptField(rec["duration_seconds"])

DurationNotNumeric(rec) ==
    /\ rec["duration_seconds"] # Missing
    /\ DecryptField(rec["duration_seconds"]) \in DurationPlaintexts
    /\ DurationRow(rec)[2] = "no"

\* s is "true" in some mix of upper and lower case
IsTrueIgnoringCase(s) ==
    /\ Len(s) = 4
    /\ s[1] \in {"t", "T"} /\ s[2] \in {"r", "R"}
    /\ s[3] \in {"u", "U"} /\ s[4] \in {"e", "E"}

\* C3: _parse_activity_record never raises; it returns None exactly when a
\* required key is missing, a decrypted field is empty or the decrypted
\* duration is not numeric; otherwise it returns an interval with the record's
\* start_time unchanged, the parsed number as duration, and is_afk true iff
\* the decrypted flag is "true" ignoring case.
C3_ParseContract ==
    parsed # Pending =>
        /\ parsed.kind # "exc"
        /\ (parsed = None) <=>
              (RequiredKeyMissing(record) \/ DecryptsEmpty(record)
                 \/ DurationNotNumeric(record))
        /\ parsed # None =>
              /\ parsed.kind = "ActivityRecord"
              /\ parsed.start_time = record["start_time"]
              /\ parsed.duration = DurationRow(record)[3]
              /\ parsed.is_afk = IsTrueIgnoringCase(DecryptField(record["is_afk"]))

\* C3 witness: a record with a garbage flag plaintext was parsed into an
\* interval with is_afk = FALSE, and it carried a signed, padded duration
C3_Witness ==
    /\ parsed # Pending /\ parsed # None
    /\ parsed.kind = "ActivityRecord"
    /\ DecryptField(record["is_afk"]) = <<"y", "e", "s">>
    /\ parsed.is_afk = FALSE
    /\ parsed.duration = 1800

----------------------------------------------------------------------------
(* SpecMetrics: _calculate_daily_metrics, then _analyze_productivity_metrics,  *)
(* applied to a list of parsed intervals                                       *)

SeqsUpTo(S, n) == UNION { [1..k -> S] : k \in 0..n }

\* durations the parser can emit: float() accepts zero and negative numbers
IntervalDurations == {0, 1, 1800, 3600, 7200, 0 - 3600}

IntervalPool ==
    { ActivityRecord(Str(Stamp("1", <<"0", "9">>)), d, a) :
        d \in IntervalDurations, a \in BOOLEAN }

InitMetrics ==
    /\ records \in SeqsUpTo(IntervalPool, MaxIntervals)
    /\ metrics = Pending /\ productivity = Pending
    /\ record = Unused /\ parsed = Unused
    /\ storage = Unused /\ call = Unused /\ outcome = Unused
    /\ pc = "unused" /\ reads = <<>>

CalculateMetrics ==
    /\ metrics = Pending
    /\ metrics' = CalculateDailyMetrics(records)
    /\ UNCHANGED <<records, productivity, parseVars, apiVars, mainVars>>

AnalyzeProductivity ==
    /\ metrics \notin {Pending, Unused} /\ productivity = Pending
    /\ productivity' = AnalyzeProductivityMetrics(metrics)
    /\ UNCHANGED <<records, metrics, parseVars, apiVars, mainVars>>

NextMetrics == CalculateMetrics \/ AnalyzeProductivity

SpecMetrics == InitMetrics /\ [][NextMetrics]_vars

Calculated == metrics \notin {Pending, Unused}

InPercentRange(r) == RLeq(RZero, r) /\ RLeq(r, RInt(PERCENT))

\* C4 (as claimed): for every interval list the calculator can receive,
\* negative durations included, the three rates lie in [0,100] and are 0 when
\* total_hours is 0.
C4_RatesInRange ==
    Calculated =>
        /\ InPercentRange(metrics.activity_rate)
        /\ InPercentRange(metrics.inactivity_rate)
        /\ InPercentRange(metrics.afk_rate)
        /\ metrics.total_hours = RZero =>
              /\ metrics.activity_rate = RZero
              /\ metrics.inactivity_rate = RZero
              /\ metrics.afk_rate = RZero

RECURSIVE RefSeconds(_, _, _)
RefSeconds(recs, n, afkOnly) ==
    IF n = 0 THEN 0
    ELSE RefSeconds(recs, n - 1, afkOnly)
         + (IF afkOnly => recs[n].is_afk THEN recs[n].duration ELSE 0)

RefRate(part_hours, whole_hours) ==
    IF RLess(RZero, whole_hours)
    THEN RMul(RInt(PERCENT), Rat(part_hours[1] * whole_hours[2], part_hours[2] * whole_hours[1]))
    ELSE RZero

ExampleIntervals ==
    << ActivityRecord(Str(Stamp("1", <<"0", "9">>)), 3600, FALSE),
       ActivityRecord(Str(Stamp("1", <<"0", "9">>)), 3600, TRUE) >>

\* C6: the calculator agrees with the reference definition: total = sum of
\* durations / 3600, afk = sum of afk durations / 3600, active = total - afk,
\* total_records = number of intervals, each rate = its hour ratio x 100 (0
\* when the total is not positive); all fields 0 for the empty list; and the
\* two-interval example gives 2h, 1h, 1h, 1h, 50, 50, 2.
C6_ReferenceMetrics ==
    Calculated =>
        LET total == Rat(RefSeconds(records, Len(records), FALSE), SECONDS_PER_HOUR)
            afk == Rat(RefSeconds(records, Len(records), TRUE), SECONDS_PER_HOUR)
            active == RSub(total, afk)
        IN  /\ metrics.total_hours = total
            /\ metrics.afk_hours = afk
            /\ metrics.active_hours = active
            /\ metrics.total_records = Len(records)
            /\ metrics.activity_rate = RefRate(active, total)
            /\ metrics.afk_rate = RefRate(afk, total)
            /\ metrics.inactivity_rate = RefRate(metrics.inactive_hours, total)
            /\ records = <<>> =>
                  metrics = DailyMetrics(<<0, 1>>, <<0, 1>>, <<0, 1>>, <<0, 1>>,
                                         <<0, 1>>, <<0, 1>>, <<0, 1>>, 0)
            /\ records = ExampleIntervals =>
                  metrics = DailyMetrics(<<2, 1>>, <<1, 1>>, <<1, 1>>, <<1, 1>>,
                                         <<50, 1>>, <<50, 1>>, <<50, 1>>, 2)

\* C6 witness: the metrics of the two-interval example have been computed
C6_Witness == Calculated /\ records = ExampleIntervals /\ metrics.total_records = 2

----------------------------------------------------------------------------
(* SpecAssess: _analyze_productivity_metrics applied to any DailyMetrics *)

AssessHours == { <<8, 1>>, <<7999, 1000>>, <<6, 1>>, <<5999, 1000>>, <<0, 1>>, <<12, 1>> }
AssessActivityRates ==
    { <<80, 1>>, <<79999, 1000>>, <<60, 1>>, <<59999, 1000>>, <<0, 1>>, <<100, 1>> }
AssessInactivityRates ==
    { <<20, 1>>, <<20001, 1000>>, <<40, 1>>, <<40001, 1000>>, <<0, 1>>, <<100, 1>> }

AssessInputs ==
    { DailyMetrics(h, RZero, RZero, RZero, a, i, i, 1) :
        h \in AssessHours, a \in AssessActivityRates, i \in AssessInactivityRates }

InitAssess ==
    /\ metrics \in AssessInputs
    /\ productivity = Pending
    /\ records = <<>>
    /\ record = Unused /\ parsed = Unused
    /\ storage = Unused /\ call = Unused /\ outcome = Unused
    /\ pc = "unused" /\ reads = <<>>

NextAssess == AnalyzeProductivity

SpecAssess == InitAssess /\ [][NextAssess]_vars

\* the tier of a value on a ladder where more is better / where less is better
TierMoreIsBetter(x, excellent, good) ==
    IF ~RLess(x, RInt(excellent)) THEN "EXCELLENT"
    ELSE IF ~RLess(x, RInt(good)) THEN "GOOD" ELSE "POOR"

TierLessIsBetter(x, excellent, good) ==
    IF ~RLess(RInt(excellent), x) THEN "EXCELLENT"
    ELSE IF ~RLess(RInt(good), x) THEN "GOOD" ELSE "POOR"

\* C9: exactly three assessments in the order total-hours, activity-rate,
\* inactivity-rate; tiers by the thresholds 8/6, 80/60 and 20/40, a value on
\* a threshold getting the better tier (8.0 EXCELLENT, 7.999 GOOD, 60.0 GOOD,
\* 59.999 POOR).
C9_AssessmentLadders ==
    (metrics \notin {Pending, Unused} /\ productivity # Pending) =>
        LET a == productivity.assessments
        IN  /\ Len(a) = 3
            /\ a[1].ladder = "total_hours"
            /\ a[2].ladder = "activity_rate"
            /\ a[3].ladder = "inactivity_rate"
            /\ a[1].level = TierMoreIsBetter(metrics.total_hours, 8, 6)
            /\ a[2].level = TierMoreIsBetter(metrics.activity_rate, 80, 60)
            /\ a[3].level = TierLessIsBetter(metrics.inactivity_rate, 20, 40)
            /\ metrics.total_hours = <<8, 1>> => a[1].level = "EXCELLENT"
            /\ metrics.total_hours = <<7999, 1000>> => a[1].level = "GOOD"
            /\ metrics.activity_rate = <<60, 1>> => a[2].level = "GOOD"
            /\ metrics.activity_rate = <<80, 1>> => a[2].level = "EXCELLENT"
            /\ metrics.activity_rate = <<59999, 1000>> => a[2].level = "POOR"
            /\ metrics.inactivity_rate = <<20, 1>> => a[3].level = "EXCELLENT"
            /\ metrics.inactivity_rate = <<40, 1>> => a[3].level = "GOOD"

\* C9 witness: metrics with all three values on a threshold have been assessed
C9_Witness ==
    /\ metrics \notin {Pending, Unused} /\ productivity # Pending
    /\ metrics.total_hours = <<8, 1>>
    /\ metrics.activity_rate = <<60, 1>>
    /\ metrics.inactivity_rate = <<40, 1>>
    /\ productivity.assessments[1].level = "EXCELLENT"
    /\ productivity.assessments[2].level = "GOOD"
    /\ productivity.assessments[3].level = "GOOD"

----------------------------------------------------------------------------
(* Spec: the public methods of an ActivityAnalyzer called on a data file *)

Idle == [op |-> "idle"]

GoodDuration(n) == Token(DECRYPTION_KEY, n)
Flag(p) == Token(DECRYPTION_KEY, p)
NotAfk == Flag(<<"f", "a", "l", "s", "e">>)
Afk == Flag(<<"T", "r", "u", "e">>)
Hour == GoodDuration(<<"3", "6", "0", "0">>)
TwoHours == GoodDuration(<<"7", "2", "0", "0">>)

\* well-formed records of the configured employee and of another one
WellFormedRecords ==
    { RawRecord(Str(EMPLOYEE_ID), Str(Stamp("1", <<"0", "9">>)), Hour, NotAfk),
      RawRecord(Str(EMPLOYEE_ID), Str(Stamp("1", <<"1", "7">>)), Hour, Afk),
      RawRecord(Str(EMPLOYEE_ID), Str(Stamp("3", <<"1", "0">>)), TwoHours, Afk),
      RawRecord(Str(EMPLOYEE_ID), Str(Stamp("3", <<"1", "1">>)),
                GoodDuration(<<"-", "3", "6", "0", "0">>), NotAfk),
      RawRecord(Str(OTHER_EMPLOYEE), Str(Stamp("2", <<"0", "9">>)), Hour, NotAfk) }

\* records of the configured employee that are malformed in one field, and
\* one that is malformed in two
MalformedRecords ==
    { RawRecord(Str(EMPLOYEE_ID), Str(Stamp("1", <<"0", "9">>)),
                Token(OTHER_KEY, <<"3", "6", "0", "0">>), NotAfk),
      RawRecord(Str(EMPLOYEE_ID), Str(Stamp("3", <<"1", "0">>)), Hour, Str(<<"x">>)),
      RawRecord(Str(EMPLOYEE_ID), Str(Stamp("1", <<"0", "9">>)),
                GoodDuration(<<"a", "b", "c">>), NotAfk),
      RawRecord(Str(EMPLOYEE_ID), Str(Stamp("3", <<"1", "0">>)), Hour, Missing),
      RawRecord(Str(EMPLOYEE_ID), Null, Hour, NotAfk),
      RawRecord(Str(EMPLOYEE_ID), Num(5), Hour, NotAfk),
      RawRecord(Str(EMPLOYEE_ID), Missing, Hour, NotAfk),
      RawRecord(Str(EMPLOYEE_ID), Str(<<"2", "0", "2", "5", "-", "0", "1", "-", "0">>),
                Hour, NotAfk),
      RawRecord(Null, Str(Stamp("1", <<"0", "9">>)), Hour, NotAfk),
      RawRecord(Str(EMPLOYEE_ID), Null, Token(OTHER_KEY, <<"3", "6", "0", "0">>), NotAfk) }

StoredRecords == WellFormedRecords \cup MalformedRecords

DataFiles ==
    { [kind |-> "missing"], [kind |-> "invalid_json"] }
      \cup { [kind |-> "json", data |-> d] : d \in SeqsUpTo(StoredRecords, MaxRecords) }

\* the dates a caller asks for: two that the records carry and one they do not
TargetDates == { Date("1"), Date("2"), Date("3") }

Init ==
    /\ storage \in DataFiles
    /\ call = Idle /\ outcome = Idle
    /\ record = Unused /\ parsed = Unused
    /\ records = <<>> /\ metrics = Unused /\ productivity = Unused
    /\ pc = "unused" /\ reads = <<>>

CallGetAvailableDates ==
    /\ call = Idle
    /\ call' = [op |-> "get_available_dates"]
    /\ outcome' = [status |-> "returned", dates |-> GetAvailableDates(storage)]
    /\ UNCHANGED <<storage, parseVars, metricsVars, mainVars>>

CallAnalyzeSpecificDate ==
    /\ call = Idle
    /\ \E target_date \in TargetDates :
          /\ call' = [op |-> "analyze_specific_date", target_date |-> target_date]
          /\ outcome' = AnalyzeSpecificDate(storage, target_date)
    /\ UNCHANGED <<storage, parseVars, metricsVars, mainVars>>

CallAnalyzeAllDatesSummary ==
    /\ call = Idle
    /\ \E available_dates \in SeqsUpTo(TargetDates, MaxDates) :
          /\ call' = [op |-> "analyze_all_dates_summary",
                      available_dates |-> available_dates]
          /\ outcome' = AnalyzeAllDatesSummary(storage, available_dates)
    /\ UNCHANGED <<storage, parseVars, metricsVars, mainVars>>

CallCreateHistogramCharts ==
    /\ call = Idle
    /\ \E available_dates \in SeqsUpTo(TargetDates, MaxDates) :
          /\ call' = [op |-> "create_histogram_charts",
                      available_dates |-> available_dates]
          /\ outcome' = CreateHistogramCharts(storage, available_dates)
    /\ UNCHANGED <<storage, parseVars, metricsVars, mainVars>>

\* the caller has taken the outcome and may call again
Return ==
    /\ call # Idle
    /\ call' = Idle /\ outcome' = Idle
    /\ UNCHANGED <<storage, parseVars, metricsVars, mainVars>>

Next ==
    \/ CallGetAvailableDates
    \/ CallAnalyzeSpecificDate
    \/ CallAnalyzeAllDatesSummary
    \/ CallCreateHistogramCharts
    \/ Return

Spec == Init /\ [][Next]_vars

----------------------------------------------------------------------------
(* Claims about the public methods *)

\* data without its i-th record
Remove(data, i) == SubSeq(data, 1, i - 1) \o SubSeq(data, i + 1, Len(data))

JsonFile(data) == [kind |-> "json", data |-> data]

\* the field is there and is no Fernet token under the configured key
CannotDecrypt(rec, key) ==
    /\ rec[key] # Missing
    /\ (rec[key].t # "token" \/ rec[key].key # DECRYPTION_KEY)

\* malformed at record level: an undecryptable field, a non-numeric duration,
\* a missing key, or a start_time or employee_id that is null or no str
Malformed(rec) ==
    \/ CannotDecrypt(rec, "duration_seconds") \/ CannotDecrypt(rec, "is_afk")
    \/ DecryptsEmpty(rec)
    \/ DurationNotNumeric(rec)
    \/ \E k \in {"employee_id", "start_time", "duration_seconds", "is_afk"} :
          rec[k] = Missing
    \/ rec["start_time"].t # "str"
    \/ rec["employee_id"].t # "str"

OnlyMalformedAt(data, i) ==
    /\ Malformed(data[i])
    /\ \A j \in 1..Len(data) : j # i => ~Malformed(data[j])

\* C1 (as claimed): with one malformed record in the list, get_available_dates
\* and _filter_records_by_date_and_employee do not raise and give the result
\* they give for the list without that record.
C1_MalformedRecordIsolated ==
    storage.kind = "json" =>
        \A i \in 1..Len(storage.data) :
            OnlyMalformedAt(storage.data, i) =>
                /\ call.op = "get_available_dates" =>
                      outcome.dates = GetAvailableDates(JsonFile(Remove(storage.data, i)))
                /\ call.op = "analyze_specific_date" =>
                      /\ outcome.filtered.kind = "ok"
                      /\ outcome.filtered =
                            FilterRecordsByDateAndEmployee(Remove(storage.data, i),
                                                           call.target_date)

\* C2: a record whose duration_seconds or is_afk cannot be decrypted parses
\* to None, and analyze_specific_date gives for the list holding it, at
\* whatever position, the filtered intervals and the DailyMetrics, field by
\* field, that it gives for the list without it.
C2_UndecryptableContributesNothing ==
    (storage.kind = "json" /\ call.op = "analyze_specific_date") =>
        \A i \in 1..Len(storage.data) :
            ( CannotDecrypt(storage.data[i], "duration_seconds")
                \/ CannotDecrypt(storage.data[i], "is_afk") ) =>
                /\ ParseActivityRecord(storage.data[i]) = None
                /\ outcome = AnalyzeSpecificDate(JsonFile(Remove(storage.data, i)),
                                                 call.target_date)

\* the metrics of the i-th supplied date, and a field of them summed over the
\* first n supplied dates
RefDay(data, dates, i) ==
    CalculateDailyMetrics(FilterRecordsByDateAndEmployee(data, dates[i]).records)

RECURSIVE RefTotal(_, _, _, _)
RefTotal(data, dates, n, field) ==
    IF n = 0 THEN RZero
    ELSE RAdd(RefTotal(data, dates, n - 1, field), RefDay(data, dates, n)[field])

SummaryMade == call.op = "analyze_all_dates_summary" /\ outcome.status = "summary"

\* one active hour on the first date, two afk hours on the third
UnequalDays ==
    << RawRecord(Str(EMPLOYEE_ID), Str(Stamp("1", <<"0", "9">>)), Hour, NotAfk),
       RawRecord(Str(EMPLOYEE_ID), Str(Stamp("3", <<"1", "0">>)), TwoHours, Afk) >>

\* C7: the overall activity rate of a summary is the summed active hours over
\* the summed total hours of the supplied dates x 100, and 0 when the summed
\* total is not positive; for a 1h day at rate 100 and a 2h day at rate 0 it
\* is 100/3, not the mean 50 of the two rates.
C7_OverallRateIsRatioOfSums ==
    SummaryMade =>
        Bind(<<RefTotal(storage.data, call.available_dates,
                        Len(call.available_dates), "active_hours"),
               RefTotal(storage.data, call.available_dates,
                        Len(call.available_dates), "total_hours")>>, LAMBDA t :
            /\ RLess(RZero, t[2]) =>
                  outcome.overall_activity_rate = RMul(RInt(100), RDiv(t[1], t[2]))
            /\ ~RLess(RZero, t[2]) => outcome.overall_activity_rate = RZero
            /\ (storage.data = UnequalDays
                  /\ call.available_dates = <<Date("1"), Date("3")>>) =>
                  /\ outcome.overall_activity_rate = <<100, 3>>
                  /\ outcome.days[1].metrics.activity_rate = <<100, 1>>
                  /\ outcome.days[2].metrics.activity_rate = <<0, 1>>)

\* C7 witness: the summary of the two unequal days has been made
C7_Witness ==
    /\ SummaryMade
    /\ storage.data = UnequalDays
    /\ call.available_dates = <<Date("1"), Date("3")>>
    /\ outcome.total_tracked_hours = <<3, 1>>

AllKeys(r) == DOMAIN r

\* C8 (as claimed): for any supplied date list a summary is produced, with the
\* four sums over the supplied dates, total_days the number of supplied dates,
\* a per-day average of each of the four sums, and every average 0 when
\* total_days is 0.
C8_AveragesAsClaimed ==
    (call.op = "analyze_all_dates_summary" /\ storage.kind = "json"
       /\ outcome.status # "error") =>
        /\ outcome.status = "summary"
        /\ outcome.total_days = Len(call.available_dates)
        /\ "avg_afk_hours" \in AllKeys(outcome)
        /\ outcome.avg_afk_hours = AveragePerDay(outcome.total_afk_hours, outcome.total_days)
        /\ outcome.avg_active_hours
              = AveragePerDay(outcome.total_active_hours, outcome.total_days)

\* C8 (amended): for an empty date list no summary is produced; a summary that
\* is produced has total_days = the number of supplied dates (dates without a
\* valid interval included, adding 0), the sums of active, total, afk and
\* inactive hours over the supplied dates, and the averages of the active,
\* total and inactive sums = sum / total_days; there is no afk average.
C8_SummaryAverages ==
    call.op = "analyze_all_dates_summary" =>
        /\ call.available_dates = <<>> => outcome.status = "no_data"
        /\ outcome.status = "summary" =>
              LET n == Len(call.available_dates)
                  Total(field) == RefTotal(storage.data, call.available_dates, n, field)
              IN  /\ n > 0
                  /\ outcome.total_days = n
                  /\ outcome.total_active_hours = Total("active_hours")
                  /\ outcome.total_tracked_hours = Total("total_hours")
                  /\ outcome.total_afk_hours = Total("afk_hours")
                  /\ outcome.total_inactive_hours = Total("inactive_hours")
                  /\ RMul(outcome.avg_active_hours, RInt(n)) = outcome.total_active_hours
                  /\ RMul(outcome.avg_total_hours, RInt(n)) = outcome.total_tracked_hours
                  /\ RMul(outcome.avg_inactive_hours, RInt(n)) = outcome.total_inactive_hours
                  /\ "avg_afk_hours" \notin AllKeys(outcome)

\* C8 witness: a summary over two dates, one of them without any interval,
\* with one tracked hour in all: the average is half an hour
C8_Witness ==
    /\ SummaryMade
    /\ outcome.total_days = 2
    /\ Len(outcome.days) = 1
    /\ outcome.total_tracked_hours = <<1, 1>>
    /\ outcome.avg_total_hours = <<1, 2>>

\* C10: for any record list get_available_dates returns the
\* first-10-character prefixes of the start_times (of 10 characters or more)
\* of the records whose employee_id is the configured identity: each date
\* once, ascending, and no other date.
C10_AvailableDates ==
    (call.op = "get_available_dates" /\ storage.kind = "json") =>
        LET own == { i \in 1..Len(storage.data) :
                       /\ storage.data[i]["employee_id"] = Str(EMPLOYEE_ID)
                       /\ storage.data[i]["start_time"].t = "str"
                       /\ Len(storage.data[i]["start_time"].v) >= 10 }
            dates == outcome.dates
        IN  /\ { dates[k] : k \in 1..Len(dates) }
                  = { SubSeq(storage.data[i]["start_time"].v, 1, 10) : i \in own }
            /\ \A k \in 1..(Len(dates) - 1) : StrLess(dates[k], dates[k + 1])

----------------------------------------------------------------------------
(* Claims about the record filter *)

\* the positions of the records the filter is to keep: of the identity, on
\* the date, and parsed into an interval
Qualifying(data, identity, date_prefix) ==
    { i \in 1..Len(data) :
        /\ data[i]["employee_id"] = Str(identity)
        /\ data[i]["start_time"].t = "str"
        /\ Len(data[i]["start_time"].v) >= Len(date_prefix)
        /\ \A c \in 1..Len(date_prefix) : data[i]["start_time"].v[c] = date_prefix[c]
        /\ ParseActivityRecord(data[i]) # None }

\* the k-th smallest member of a set of positions
KthOf(Q, k) == CHOOSE i \in Q : Cardinality({ j \in Q : j < i }) = k - 1

\* C11: for any record list and date prefix the filter does not raise and
\* returns, in input order and without placeholders, the parsed intervals of
\* exactly the records of the identity whose start_time starts with the date
\* prefix and whose parse is not None; the empty list when no record
\* qualifies.
C11_FilterKeepsQualifying ==
    (call.op = "analyze_specific_date" /\ storage.kind = "json") =>
        LET Q == Qualifying(storage.data, EMPLOYEE_ID, call.target_date)
            kept == outcome.filtered
        IN  /\ kept.kind = "ok"
            /\ Len(kept.records) = Cardinality(Q)
            /\ \A k \in 1..Len(kept.records) :
                  /\ kept.records[k] = ParseActivityRecord(storage.data[KthOf(Q, k)])
                  /\ kept.records[k].kind = "ActivityRecord"
            /\ Q = {} => (kept.records = <<>> /\ outcome.status = "no_data")

----------------------------------------------------------------------------
(* Claims about a data file that cannot be loaded *)

LoadFails == storage.kind \in {"missing", "invalid_json"}

NeedsCollection ==
    \/ call.op \in {"get_available_dates", "analyze_specific_date"}
    \/ call.op = "analyze_all_dates_summary" /\ call.available_dates # <<>>

\* C12: when the load fails, get_available_dates, analyze_specific_date and
\* analyze_all_dates_summary end in an explicit failure outcome, which differs
\* from the outcome on a file without records; never in an empty result.
C12_LoadFailureSurfaced ==
    (LoadFails /\ NeedsCollection) =>
        /\ outcome.status = "error"
        /\ call.op = "get_available_dates" =>
              outcome # [status |-> "returned", dates |-> GetAvailableDates(JsonFile(<<>>))]

----------------------------------------------------------------------------
(* Claims about the sign of durations and hours *)

NonNegative(r) == RLeq(RZero, r)

\* C13: every interval the parser emits through the filter has a duration
\* >= 0, and the DailyMetrics computed from the filter's output has
\* total_hours, active_hours, inactive_hours and afk_hours all >= 0.
C13_NonNegativeHours ==
    (call.op = "analyze_specific_date" /\ outcome.status \in {"no_data", "report"}) =>
        /\ \A k \in 1..Len(outcome.filtered.records) :
              outcome.filtered.records[k].duration >= 0
        /\ outcome.status = "report" =>
              /\ NonNegative(outcome.metrics.total_hours)
              /\ NonNegative(outcome.metrics.active_hours)
              /\ NonNegative(outcome.metrics.inactive_hours)
              /\ NonNegative(outcome.metrics.afk_hours)

----------------------------------------------------------------------------
(* SpecMain: one run of main(): get_user_choice, then the chosen analysis *)

\* data files a run of main may meet: unreadable ones, an empty list, and
\* lists carrying one or two dates of the configured employee
MainFiles ==
    { [kind |-> "missing"], [kind |-> "invalid_json"],
      JsonFile(<<>>),
      JsonFile(<<RawRecord(Str(EMPLOYEE_ID), Str(Stamp("1", <<"0", "9">>)), Hour, NotAfk)>>),
      JsonFile(<<RawRecord(Str(EMPLOYEE_ID), Str(Stamp("3", <<"1", "0">>)), TwoHours, Afk)>>),
      JsonFile(UnequalDays),
      JsonFile(<<RawRecord(Str(EMPLOYEE_ID), Null, Hour, NotAfk)>>) }

\* what the user can answer to the menu: "1" with a date that
\* _get_target_date accepts (found in the data, or confirmed), "2" or "3"
\* with the dates found; any other answer is asked again
UserChoices(available_dates) ==
    { [type |-> "specific", date |-> d, dates |-> <<>>] : d \in TargetDates }
      \cup { [type |-> t, date |-> <<>>, dates |-> available_dates] :
                t \in {"summary", "histogram"} }

\* main: the analysis is called for a target date, or for a date list that
\* is not empty
MainCallsAnalysis(user_choice) ==
    IF user_choice.type = "specific" THEN user_choice.date # <<>>
    ELSE user_choice.dates # <<>>

\* variant: the file loaded again for every date of the list
MethodLoadsPerDate(user_choice) ==
    IF user_choice.type = "specific" THEN 1 ELSE Len(user_choice.dates)

\* how often the called method calls _load_activity_data: once, before its
\* loop over the dates, and not at all when it returns on an empty date list
MethodLoads(user_choice) ==
    IF user_choice.type # "specific" /\ user_choice.dates = <<>> THEN 0 ELSE 1

\* what the called method prints
MethodOutcome(file, user_choice) ==
    CASE user_choice.type = "specific" -> AnalyzeSpecificDate(file, user_choice.date)
      [] user_choice.type = "summary" -> AnalyzeAllDatesSummary(file, user_choice.dates)
      [] user_choice.type = "histogram" -> CreateHistogramCharts(file, user_choice.dates)

InitMain ==
    /\ storage \in MainFiles
    /\ pc = "get_user_choice" /\ reads = <<>>
    /\ call = [op |-> "main"] /\ outcome = Idle
    /\ record = Unused /\ parsed = Unused
    /\ records = <<>> /\ metrics = Unused /\ productivity = Unused

\* get_user_choice up to the menu: the dates are discovered and shown
DiscoverDates ==
    /\ pc = "get_user_choice"
    /\ reads' = Append(reads, storage)
    /\ call' = [op |-> "main", available_dates |-> GetAvailableDates(storage)]
    /\ pc' = "menu"
    /\ UNCHANGED <<storage, outcome, parseVars, metricsVars>>

\* the user answers the menu and get_user_choice returns
ChooseAnalysis ==
    /\ pc = "menu"
    /\ \E user_choice \in UserChoices(call.available_dates) :
          call' = [op |-> "main", available_dates |-> call.available_dates,
                   user_choice |-> user_choice]
    /\ pc' = "analyze"
    /\ UNCHANGED <<storage, outcome, reads, parseVars, metricsVars>>

\* while main waits for the user, the data file is replaced on disk
StorageChanges ==
    /\ pc = "menu"
    /\ \E file \in MainFiles \ {storage} : storage' = file
    /\ UNCHANGED <<call, outcome, pc, reads, parseVars, metricsVars>>

\* main calls the chosen method, or prints that the choice holds no dates
RunAnalysis ==
    /\ pc = "analyze"
    /\ IF MainCallsAnalysis(call.user_choice)
       THEN /\ reads' = reads \o [k \in 1..MethodLoads(call.user_choice) |-> storage]
            /\ outcome' = MethodOutcome(storage, call.user_choice)
       ELSE /\ reads' = reads
            /\ outcome' = [status |-> "invalid_dates"]
    /\ pc' = "done"
    /\ UNCHANGED <<storage, call, parseVars, metricsVars>>

NextMain == DiscoverDates \/ ChooseAnalysis \/ StorageChanges \/ RunAnalysis

SpecMain == InitMain /\ [][NextMain]_vars

\* C14 (as claimed): in one run of main the collection is read exactly once,
\* so the date list and the metrics come from the same snapshot.
C14_ReadOncePerRun ==
    pc = "done" =>
        /\ Len(reads) = 1
        /\ call.available_dates = GetAvailableDates(reads[1])
        /\ MainCallsAnalysis(call.user_choice) =>
              outcome = MethodOutcome(reads[1], call.user_choice)

\* C14 (amended): a run of main reads the collection once for the date
\* discovery and once more for the called method, whatever the number of
\* dates, and only once when no method is called; the date list comes from
\* the first read and the outcome from the last.
C14_ReadsPerRun ==
    pc = "done" =>
        /\ Len(reads) = (IF outcome.status = "invalid_dates" THEN 1 ELSE 2)
        /\ outcome.status = "invalid_dates" <=>
              (call.user_choice.type # "specific" /\ call.available_dates = <<>>)
        /\ call.available_dates = GetAvailableDates(reads[1])
        /\ Len(reads) = 2 =>
              outcome = MethodOutcome(reads[2], call.user_choice)

\* C14 witness: a summary over two dates was made after two reads, and the
\* file of the second read was not the file of the first
C14_Witness ==
    /\ pc = "done"
    /\ call.user_choice.type = "summary"
    /\ Len(call.user_choice.dates) = 2
    /\ Len(reads) = 2
    /\ reads[1] # reads[2]
    /\ outcome.status = "summary"

----------------------------------------------------------------------------
(* Python floats as IEEE 754 binary64 values, rounded to nearest-even.       *)
(* A float >= 0 is [m, e] with value m * 2^e, where m is 0 or has exactly    *)
(* 53 bits; m is kept in three limbs <<high, middle, low>> to the base 2^20. *)
(* The values met here are far from the subnormal and the overflow range.    *)

LIMB == 1048576
LIMB_BITS == 20
SIGNIFICAND_BITS == 53
GUARD_BITS == 3
\* shifts are done at most CHUNK_BITS bits at a time, and a quotient is
\* produced DIGIT_BITS bits at a time: 1 + 9 * 6 = 55 quotient bits
CHUNK_BITS == 10
DIGIT_BITS == 6
QUOTIENT_DIGITS == 9

BZero == <<0, 0, 0>>
BOne == <<0, 0, 1>>

\* carries (and borrows) taken into the next limb
Carry(a) ==
    Bind(a, LAMBDA x :
        Bind(x[2] + (x[3] \div LIMB), LAMBDA mid :
            <<x[1] + (mid \div LIMB), mid % LIMB, x[3] % LIMB>>))

BAdd(a, b) == Bind(<<a, b>>, LAMBDA x :
                  Carry(<<x[1][1] + x[2][1], x[1][2] + x[2][2], x[1][3] + x[2][3]>>))

\* a - b for a >= b
BSub(a, b) == Bind(<<a, b>>, LAMBDA x :
                  Carry(<<x[1][1] - x[2][1], x[1][2] - x[2][2], x[1][3] - x[2][3]>>))

\* a * g for a small g
BMulSmall(a, g) == Bind(<<a, g>>, LAMBDA x :
                       Carry(<<x[1][1] * x[2], x[1][2] * x[2], x[1][3] * x[2]>>))

BLess(a, b) ==
    Bind(<<a, b>>, LAMBDA x :
        \/ x[1][1] < x[2][1]
        \/ (x[1][1] = x[2][1] /\ x[1][2] < x[2][2])
        \/ (x[1][1] = x[2][1] /\ x[1][2] = x[2][2] /\ x[1][3] < x[2][3]))

BOdd(a) == a[3] % 2 = 1

\* a \div 2^k and a % 2^k, for k <= CHUNK_BITS
BDivPow2(a, k) ==
    Bind(<<a, 2 ^ k>>, LAMBDA x :
        Bind((x[1][1] % x[2]) * LIMB + x[1][2], LAMBDA mid :
            Bind((mid % x[2]) * LIMB + x[1][3], LAMBDA low :
                [n |-> <<x[1][1] \div x[2], mid \div x[2], low \div x[2]>>,
                 out |-> low % x[2]])))

BitLenInt(n) == IF n = 0 THEN 0 ELSE CHOOSE k \in 1..31 : n \div (2 ^ (k - 1)) = 1

BitLen(a) ==
    Bind(a, LAMBDA x :
        IF x[1] > 0 THEN 2 * LIMB_BITS + BitLenInt(x[1])
        ELSE IF x[2] > 0 THEN LIMB_BITS + BitLenInt(x[2])
        ELSE BitLenInt(x[3]))

RECURSIVE ShiftLeft(_, _)
ShiftLeft(a, k) ==
    IF k <= CHUNK_BITS THEN BMulSmall(a, 2 ^ k)
    ELSE Bind(<<BMulSmall(a, 2 ^ CHUNK_BITS), k - CHUNK_BITS>>, LAMBDA x :
             ShiftLeft(x[1], x[2]))

\* a shifted right by k bits: what is left, the last bit shifted out (round)
\* and whether any bit shifted out before it was set (sticky)
RECURSIVE ShiftRight(_, _, _, _)
ShiftRight(a, k, round, sticky) ==
    IF k = 0 THEN [n |-> a, round |-> round, sticky |-> sticky]
    ELSE Bind(IF k <= CHUNK_BITS THEN k ELSE CHUNK_BITS, LAMBDA step :
         Bind(<<BDivPow2(a, step), 2 ^ (step - 1)>>, LAMBDA x :
         Bind(<<x[1].n, k - step, x[1].out >= x[2],
                sticky \/ round \/ x[1].out % x[2] # 0>>, LAMBDA y :
             ShiftRight(y[1], y[2], y[3], y[4]))))

FZero == [m |-> BZero, e |-> 0]

\* n * 2^e (with bits below n * 2^e set iff sticky) rounded to 53 bits
RoundTo53(n, e, sticky) ==
    Bind(<<n, BitLen(n), e, sticky>>, LAMBDA x :
        IF x[2] <= SIGNIFICAND_BITS
        THEN Bind(ShiftLeft(x[1], SIGNIFICAND_BITS - x[2]), LAMBDA up :
                 [m |-> up, e |-> x[3] - (SIGNIFICAND_BITS - x[2])])
        ELSE Bind(ShiftRight(x[1], x[2] - SIGNIFICAND_BITS, FALSE, x[4]), LAMBDA cut :
                 Bind(IF cut.round /\ (cut.sticky \/ BOdd(cut.n))
                      THEN BAdd(cut.n, BOne) ELSE cut.n, LAMBDA up :
                     IF BitLen(up) > SIGNIFICAND_BITS
                     THEN [m |-> BDivPow2(up, 1).n,
                           e |-> x[3] + (x[2] - SIGNIFICAND_BITS) + 1]
                     ELSE [m |-> up, e |-> x[3] + (x[2] - SIGNIFICAND_BITS)])))

\* float(n) of an int n >= 0
FromInt(n) == IF n = 0 THEN FZero ELSE RoundTo53(Carry(<<0, 0, n>>), 0, FALSE)

\* k more quotient digits of r / d, for r < d
RECURSIVE DivLoop(_, _, _, _)
DivLoop(r, d, q, k) ==
    IF k = 0 THEN [q |-> q, r |-> r]
    ELSE Bind(<<ShiftLeft(r, DIGIT_BITS), d, ShiftLeft(q, DIGIT_BITS), k - 1>>, LAMBDA x :
         Bind(CHOOSE g \in 0..(2 ^ DIGIT_BITS - 1) :
                  /\ ~BLess(x[1], BMulSmall(x[2], g))
                  /\ BLess(x[1], BMulSmall(x[2], g + 1)), LAMBDA digit :
             DivLoop(BSub(x[1], BMulSmall(x[2], digit)), x[2],
                     BAdd(x[3], <<0, 0, digit>>), x[4])))

\* x / y for y > 0
FDiv(x, y) ==
    Bind(<<x, y>>, LAMBDA p :
        IF p[1].m = BZero THEN FZero
        ELSE Bind(BLess(p[1].m, p[2].m), LAMBDA less :
             Bind(DivLoop(BSub(IF less THEN BAdd(p[1].m, p[1].m) ELSE p[1].m, p[2].m),
                          p[2].m, BOne, QUOTIENT_DIGITS), LAMBDA div :
                 RoundTo53(div.q,
                           p[1].e - p[2].e - (IF less THEN 1 ELSE 0)
                               - QUOTIENT_DIGITS * DIGIT_BITS,
                           div.r # BZero))))

\* x * 100
FMul100(x) ==
    Bind(x, LAMBDA p :
        IF p.m = BZero THEN FZero
        ELSE RoundTo53(BMulSmall(p.m, PERCENT), p.e, FALSE))

\* the smaller operand aligned to the exponent of the larger one, with
\* three guard bits, the bits shifted out gathered into the lowest one
Aligned(y, d) ==
    Bind(ShiftRight(ShiftLeft(y.m, GUARD_BITS),
                    IF d > SIGNIFICAND_BITS + GUARD_BITS
                    THEN SIGNIFICAND_BITS + GUARD_BITS ELSE d, FALSE, FALSE),
         LAMBDA cut :
            IF (cut.round \/ cut.sticky) /\ ~BOdd(cut.n)
            THEN BAdd(cut.n, BOne) ELSE cut.n)

FLess(x, y) ==
    Bind(<<x, y>>, LAMBDA p :
        IF p[2].m = BZero THEN FALSE
        ELSE IF p[1].m = BZero THEN TRUE
        ELSE p[1].e < p[2].e \/ (p[1].e = p[2].e /\ BLess(p[1].m, p[2].m)))

FLeq(x, y) == ~FLess(y, x)

\* x - y for x >= y
FSub(x, y) ==
    Bind(<<x, y>>, LAMBDA p :
        IF p[2].m = BZero THEN p[1]
        ELSE Bind(BSub(ShiftLeft(p[1].m, GUARD_BITS), Aligned(p[2], p[1].e - p[2].e)),
                  LAMBDA diff :
                 IF diff = BZero THEN FZero
                 ELSE RoundTo53(diff, p[1].e - GUARD_BITS, FALSE)))

----------------------------------------------------------------------------
(* SpecFloat: _calculate_daily_metrics, then _analyze_productivity_metrics,   *)
(* in binary64 arithmetic, applied to intervals of whole seconds >= 0         *)

\* the rate: part / whole * 100 if whole > 0 else 0
FloatRateOf(part, whole) ==
    Bind(<<part, whole>>, LAMBDA p :
        IF FLess(FZero, p[2]) THEN FMul100(FDiv(p[1], p[2])) ELSE FZero)

CalculateDailyMetricsFloat(recs) ==
    IF recs = <<>>
    THEN DailyMetrics(FZero, FZero, FZero, FZero, FZero, FZero, FZero, 0)
    ELSE Bind(<<SumDuration(recs, FALSE), SumDuration(recs, TRUE)>>, LAMBDA seconds :
         LET total_seconds == seconds[1]
             afk_seconds == seconds[2]
             active_seconds == total_seconds - afk_seconds
         IN  Bind(<<FDiv(FromInt(total_seconds), FromInt(SECONDS_PER_HOUR)),
                    FDiv(FromInt(afk_seconds), FromInt(SECONDS_PER_HOUR)),
                    FDiv(FromInt(active_seconds), FromInt(SECONDS_PER_HOUR))>>,
                  LAMBDA hours :
             LET total_hours == hours[1]
                 afk_hours == hours[2]
                 active_hours == hours[3]
             IN  Bind(FSub(total_hours, active_hours), LAMBDA inactive_hours :
                 DailyMetrics(total_hours, active_hours, inactive_hours, afk_hours,
                              FloatRateOf(FromInt(active_seconds), FromInt(total_seconds)),
                              FloatRateOf(inactive_hours, total_hours),
                              FloatRateOf(afk_hours, total_hours),
                              Len(recs)))))

TotalHoursAssessmentFloat(m) ==
    IF FLeq(FromInt(FULL_DAY_HOURS), m.total_hours)
    THEN Assessment("total_hours", "EXCELLENT", "Full work day tracked")
    ELSE IF FLeq(FromInt(SUBSTANTIAL_HOURS), m.total_hours)
    THEN Assessment("total_hours", "GOOD", "Substantial work time")
    ELSE Assessment("total_hours", "POOR", "Limited work time")

ActivityRateAssessmentFloat(m) ==
    IF FLeq(FromInt(EXCELLENT_ACTIVITY), m.activity_rate)
    THEN Assessment("activity_rate", "EXCELLENT", "Excellent activity rate")
    ELSE IF FLeq(FromInt(GOOD_ACTIVITY), m.activity_rate)
    THEN Assessment("activity_rate", "GOOD", "Good activity rate")
    ELSE Assessment("activity_rate", "POOR", "Low activity rate")

InactivityAssessmentFloat(m) ==
    IF FLeq(m.inactivity_rate, FromInt(LOW_INACTIVITY))
    THEN Assessment("inactivity_rate", "EXCELLENT", "Low inactivity")
    ELSE IF FLeq(m.inactivity_rate, FromInt(MODERATE_INACTIVITY))
    THEN Assessment("inactivity_rate", "GOOD", "Moderate inactivity")
    ELSE Assessment("inactivity_rate", "POOR", "High inactivity")

AnalyzeProductivityMetricsFloat(m) ==
    [inactive_hours |-> m.inactive_hours,
     inactivity_rate |-> m.inactivity_rate,
     afk_rate |-> m.afk_rate,
     activity_rate |-> m.activity_rate,
     assessments |-> <<TotalHoursAssessmentFloat(m), ActivityRateAssessmentFloat(m),
                       InactivityAssessmentFloat(m)>>]

\* whole seconds; 4 s active with 1 s afk is a day at the 80 % / 20 % thresholds
FloatDurations == {0, 1, 4, 3600}

FloatIntervalPool ==
    { ActivityRecord(Str(Stamp("1", <<"0", "9">>)), d, a) :
        d \in FloatDurations, a \in BOOLEAN }

InitFloat ==
    /\ records \in SeqsUpTo(FloatIntervalPool, MaxIntervals)
    /\ metrics = Pending /\ productivity = Pending
    /\ record = Unused /\ parsed = Unused
    /\ storage = Unused /\ call = Unused /\ outcome = Unused
    /\ pc = "unused" /\ reads = <<>>

CalculateMetricsFloat ==
    /\ metrics = Pending
    /\ metrics' = CalculateDailyMetricsFloat(records)
    /\ UNCHANGED <<records, productivity, parseVars, apiVars, mainVars>>

AnalyzeProductivityFloat ==
    /\ metrics \notin {Pending, Unused} /\ productivity = Pending
    /\ productivity' = AnalyzeProductivityMetricsFloat(metrics)
    /\ UNCHANGED <<records, metrics, parseVars, apiVars, mainVars>>

NextFloat == CalculateMetricsFloat \/ AnalyzeProductivityFloat

SpecFloat == InitFloat /\ [][NextFloat]_vars

----------------------------------------------------------------------------
(* C15 *)

Assessed == productivity \notin {Pending, Unused}

TotalSeconds == SumDuration(records, FALSE)

\* C15: for every interval list with non-negative durations and total duration
\* > 0, activity_rate + inactivity_rate == 100 up to rounding, and the
\* activity-rate judgment and the inactivity-rate judgment have the same tier;
\* the two judgments differ only when the total duration is 0.
C15_SameTier ==
    (Assessed /\ TotalSeconds > 0) =>
        productivity.assessments[2].level = productivity.assessments[3].level

====
